---- MODULE Spec2Model ----
(***************************************************************************)
(* The connections indexer of the session                                  *)
(* (src/cpp/session/modules/connections/ConnectionsIndexer.cpp):           *)
(* ConnectionsIndexEntry, ConnectionsRegistry, the process-wide current    *)
(* registry, ConnectionsIndexer and the functions that trigger indexing.   *)
(* Strings are TLA+ strings; a registry is a function from its keys to     *)
(* entries, as std::map<std::string, ConnectionsIndexEntry>.               *)
(***************************************************************************)
EXTENDS Integers, Sequences, FiniteSets, TLC

(* ------------------------------------------------------------------ *)
(* Bounds of the model                                                  *)
(* ------------------------------------------------------------------ *)

\* indexing passes started in one behaviour
MaxPasses == 2
\* non-empty continuations handed to indexLibraryPathsWithContinuation
MaxConts == 2
\* delayed re-index jobs pending in the host's scheduler at one time
MaxScheduled == 1
\* number of add(package, spec) calls recorded in a call sequence
MaxAdds == 3

(* ------------------------------------------------------------------ *)
(* Strings                                                              *)
(* ------------------------------------------------------------------ *)

CharAt(s, i) == SubSeq(s, i, i)

\* boost::algorithm::starts_with
StartsWith(s, prefix) ==
    /\ Len(prefix) <= Len(s)
    /\ SubSeq(s, 1, Len(prefix)) = prefix

IsSpace(c) == c \in {" ", "\t", "\n", "\r"}

RECURSIVE TrimLeft(_)
TrimLeft(s) ==
    IF Len(s) > 0 /\ IsSpace(CharAt(s, 1))
    THEN TrimLeft(SubSeq(s, 2, Len(s)))
    ELSE s

RECURSIVE TrimRight(_)
TrimRight(s) ==
    IF Len(s) > 0 /\ IsSpace(CharAt(s, Len(s)))
    THEN TrimRight(SubSeq(s, 1, Len(s) - 1))
    ELSE s

\* boost::algorithm::trim_copy
TrimCopy(s) == TrimRight(TrimLeft(s))

\* the first position >= i of s that holds character c, 0 when there is none
RECURSIVE IndexOf(_, _, _)
IndexOf(s, c, i) ==
    IF i > Len(s) THEN 0
    ELSE IF CharAt(s, i) = c THEN i
    ELSE IndexOf(s, c, i + 1)

(* ------------------------------------------------------------------ *)
(* ConnectionsIndexEntry                                                *)
(* ------------------------------------------------------------------ *)

\* ConnectionsIndexEntry(name, package)
ConnectionsIndexEntry(name, package) == [name_ |-> name, package_ |-> package]

\* ConnectionsIndexEntry(): both strings default-constructed
DefaultEntry == [name_ |-> "", package_ |-> ""]

\* ConnectionsIndexEntry::toJson
EntryToJson(entry) == [name |-> entry.name_, package |-> entry.package_]

(* ------------------------------------------------------------------ *)
(* ConnectionsRegistry: connections_ is a function from keys to entries *)
(* ------------------------------------------------------------------ *)

\* a registry as boost::make_shared<ConnectionsRegistry>() makes it
EmptyRegistry == << >>

\* std::map::operator[]= : insert or overwrite
MapPut(m, k, v) == [x \in DOMAIN m \cup {k} |-> IF x = k THEN v ELSE m[x]]

\* Faulty variant of constructKey: no separator between package and name.
constructKey_NoSeparator(package, name) == package \o name

\* constructKey(package, name)
constructKey(package, name) == package \o "::" \o name

\* Faulty variant of add(package, spec): std::map::insert, which keeps the
\* entry already stored under the key.
RegistryAdd_KeepFirst(reg, package, spec) ==
    IF constructKey(package, spec.name_) \in DOMAIN reg
    THEN reg
    ELSE MapPut(reg, constructKey(package, spec.name_), spec)

\* add(package, spec)
RegistryAdd(reg, package, spec) ==
    MapPut(reg, constructKey(package, spec.name_), spec)

\* std::map<std::string, std::string>::operator[] on the parsed fields:
\* a missing field reads as the empty string
FieldValue(fields, key) == IF key \in DOMAIN fields THEN fields[key] ELSE ""

\* Faulty variant of add(pkgName, fields): fields without a Name add nothing.
RegistryAddFields_SkipNameless(reg, pkgName, fields) ==
    IF "Name" \in DOMAIN fields
    THEN RegistryAdd(reg, pkgName, ConnectionsIndexEntry(fields["Name"], pkgName))
    ELSE reg

\* add(pkgName, fields)
RegistryAddFields(reg, pkgName, fields) ==
    RegistryAdd(reg, pkgName,
                ConnectionsIndexEntry(FieldValue(fields, "Name"), pkgName))

\* Faulty variant of contains(package, name): the key built from the
\* arguments in the wrong order.
RegistryContains_Swapped(reg, package, name) ==
    constructKey(name, package) \in DOMAIN reg

\* contains(package, name)
RegistryContains(reg, package, name) ==
    constructKey(package, name) \in DOMAIN reg

\* get(package, name): connections_[key] on a non-const map inserts a
\* default-constructed entry under a missing key, then returns the entry
RegistryGet(reg, package, name) ==
    LET key == constructKey(package, name)
        after == IF key \in DOMAIN reg THEN reg ELSE MapPut(reg, key, DefaultEntry)
    IN  [registry |-> after, entry |-> after[key]]

\* toJson(): one member per key, the entry's toJson() as its value
RegistryToJson(reg) == [key \in DOMAIN reg |-> EntryToJson(reg[key])]

\* size()
RegistrySize(reg) == Cardinality(DOMAIN reg)

(* ------------------------------------------------------------------ *)
(* add(pkgName, connectionExtensionPath)                                *)
(* ------------------------------------------------------------------ *)

\* A FilePath is modelled by what the file system holds there:
\* [exists, readable, contents].
DescriptorFile(contents) == [exists |-> TRUE, readable |-> TRUE, contents |-> contents]
UnreadableFile == [exists |-> TRUE, readable |-> FALSE, contents |-> ""]
MissingFile == [exists |-> FALSE, readable |-> FALSE, contents |-> ""]

\* string_utils::LineEndingPosix: "\r\n" and a lone "\r" become "\n"
RECURSIVE ConvertLineEndingsPosix(_)
ConvertLineEndingsPosix(s) ==
    IF Len(s) = 0 THEN s
    ELSE IF CharAt(s, 1) = "\r"
    THEN IF Len(s) > 1 /\ CharAt(s, 2) = "\n"
         THEN "\n" \o ConvertLineEndingsPosix(SubSeq(s, 3, Len(s)))
         ELSE "\n" \o ConvertLineEndingsPosix(SubSeq(s, 2, Len(s)))
    ELSE CharAt(s, 1) \o ConvertLineEndingsPosix(SubSeq(s, 2, Len(s)))

\* core::readStringFromFile(path, &contents, LineEndingPosix)
readStringFromFile(file) ==
    IF file.exists /\ file.readable
    THEN [error |-> FALSE, contents |-> ConvertLineEndingsPosix(file.contents)]
    ELSE [error |-> TRUE, contents |-> ""]

\* the number of consecutive newlines of s that start at position i
RECURSIVE NewlineRun(_, _)
NewlineRun(s, i) ==
    IF i <= Len(s) /\ CharAt(s, i) = "\n" THEN 1 + NewlineRun(s, i + 1) ELSE 0

\* regex_search for reSeparator ("\n{2,}") from position i: the start of the
\* leftmost match, 0 when there is none (the match is greedy: the whole run)
RECURSIVE FindSeparator(_, _)
FindSeparator(s, i) ==
    IF i > Len(s) THEN 0
    ELSE IF NewlineRun(s, i) >= 2 THEN i
    ELSE FindSeparator(s, i + 1)

\* boost::sregex_token_iterator(.., reSeparator, -1), operator++: after a
\* match that ended before position i, the text up to the next match, or the
\* rest of the text when it is not empty
RECURSIVE TokensFrom(_, _)
TokensFrom(s, i) ==
    LET j == FindSeparator(s, i)
    IN  IF j # 0
        THEN <<SubSeq(s, i, j - 1)>> \o TokensFrom(s, j + NewlineRun(s, j))
        ELSE IF i <= Len(s) THEN <<SubSeq(s, i, Len(s))>> ELSE << >>

\* boost::sregex_token_iterator(.., reSeparator, -1), construction: the text
\* before the first match (empty when the text starts with a separator), or
\* the whole text (empty or not) when nothing matches
SplitBlocks(s) ==
    LET j == FindSeparator(s, 1)
    IN  IF j # 0
        THEN <<SubSeq(s, 1, j - 1)>> \o TokensFrom(s, j + NewlineRun(s, j))
        ELSE <<s>>

\* the lines of a block
RECURSIVE SplitLines(_)
SplitLines(s) ==
    LET j == IndexOf(s, "\n", 1)
    IN  IF j = 0 THEN <<s>>
        ELSE <<SubSeq(s, 1, j - 1)>> \o SplitLines(SubSeq(s, j + 1, Len(s)))

\* text::parseDcfFile(contents, true, &fields, &errMsg): "key: value" lines,
\* a line that starts with white space continues the value above it, blank
\* lines are skipped, any other line is an error. On an error the fields
\* read so far stay in the map.
RECURSIVE ParseDcfLines(_, _, _)
ParseDcfLines(lines, fields, lastKey) ==
    IF lines = << >> THEN [error |-> FALSE, fields |-> fields]
    ELSE LET line == Head(lines)
             colon == IndexOf(line, ":", 1)
         IN  IF TrimCopy(line) = ""
             THEN ParseDcfLines(Tail(lines), fields, lastKey)
             ELSE IF IsSpace(CharAt(line, 1))
             THEN IF lastKey = ""
                  THEN [error |-> TRUE, fields |-> fields]
                  ELSE ParseDcfLines(Tail(lines),
                                     MapPut(fields, lastKey,
                                            fields[lastKey] \o "\n" \o TrimCopy(line)),
                                     lastKey)
             ELSE IF colon < 2
             THEN [error |-> TRUE, fields |-> fields]
             ELSE LET key == TrimCopy(SubSeq(line, 1, colon - 1))
                      value == TrimCopy(SubSeq(line, colon + 1, Len(line)))
                  IN  ParseDcfLines(Tail(lines), MapPut(fields, key, value), key)

parseDcfFile(contents) == ParseDcfLines(SplitLines(contents), << >>, "")

\* parseConnectionsDcf: the error is logged, the fields are returned either way
parseConnectionsDcf(contents) == parseDcfFile(contents).fields

\* the loop of add(pkgName, path): one add(pkgName, fields) per token
RECURSIVE AddBlocks(_, _, _)
AddBlocks(reg, pkgName, blocks) ==
    IF blocks = << >> THEN reg
    ELSE AddBlocks(RegistryAddFields(reg, pkgName, parseConnectionsDcf(Head(blocks))),
                   pkgName, Tail(blocks))

\* add(pkgName, connectionExtensionPath)
RegistryAddFile(reg, pkgName, file) ==
    LET read == readStringFromFile(file)
    IN  IF read.error THEN reg
        ELSE AddBlocks(reg, pkgName, SplitBlocks(read.contents))

(* ------------------------------------------------------------------ *)
(* The environment: the package library, the project, the console       *)
(* ------------------------------------------------------------------ *)

\* The packages of the library that hold a descriptor file
\* (rstudio/connections.dcf), each with its file.
Library ==
    << [pkgName |-> "odbc", file |-> DescriptorFile("Name: pg\n\nName: sqlite\n")],
       [pkgName |-> "RPg",  file |-> UnreadableFile] >>

\* projects::projectContext().packageInfo().name()
DevPackageName == "mypkg"

\* what inst/rstudio/connections.dcf of the project can be
DevFiles == { MissingFile, DescriptorFile("Name: dev\n\nbroken line\n") }

\* lines of console input
ConsoleInputs ==
    { "install.packages(\"DBI\")", "x <- 1", "  devtools::load_all()\n" }

(* ------------------------------------------------------------------ *)
(* State                                                                *)
(* ------------------------------------------------------------------ *)

VARIABLES
    heap,            \* the ConnectionsRegistry objects alive, by address
    sCurrent,        \* s_pCurrentConnectionsRegistry
    pRegistry,       \* ConnectionsIndexer::pRegistry_ (Null before the first pass)
    continuations,   \* ConnectionsIndexer::continuations_
    walks,           \* ppe::Indexer: walks begun by start() and not yet completed
    hookStarted,     \* ppe::Indexer: onIndexingStarted() was called for the walk in flight
    scheduled,       \* module_context: delayed idle-only indexLibraryPaths jobs pending
    passNo,          \* history: passes started so far
    workLog,         \* ppe::Indexer: the Library entries the walk in flight has handed to onWork()
    lastPass,        \* history: the pass that completed last
    contLog,         \* history: per continuation, when it was queued and invoked
    lastResolved,    \* history: the continuation calls of the last onIndexingCompleted()
    ret,             \* the result of the last call made on the registry directly
    addLog,          \* history: the add(package, spec) calls made on the registry directly
    drain            \* the loop of onIndexingCompleted() over continuations_, when it is followed call by call

vars == << heap, sCurrent, pRegistry, continuations, walks, hookStarted, scheduled,
           passNo, workLog, lastPass, contLog, lastResolved, ret, addLog, drain >>

\* a null shared_ptr
Null == 0

\* addresses of registry objects: at most the current one, the one being
\* built and the one being allocated are alive together
ObjectIds == 1 .. 3

\* an empty json::JsonRpcFunctionContinuation (boost::function): `if (continuation)` is false
NoContinuation == 0

\* shared_ptr ownership: the objects no pointer of `owners` refers to are freed
Live(h, owners) == [i \in (DOMAIN h) \cap owners |-> h[i]]

\* no loop over continuations_ is being followed; `pass` is what lastPass
\* becomes when the loop ends
NoDrain ==
    [active |-> FALSE, pos |-> 0, last |-> 0, dangling |-> FALSE, crashed |-> FALSE,
     pass |-> [no |-> 0, work |-> {}, loadAll |-> FALSE, devFile |-> MissingFile,
               registry |-> 1, dropped |-> FALSE]]

NoCall == [op |-> "none", key |-> "", found |-> FALSE, entry |-> DefaultEntry,
           file |-> MissingFile]

Init ==
    /\ sCurrent = 1
    /\ heap = (1 :> EmptyRegistry)
    /\ pRegistry = Null
    /\ continuations = << >>
    /\ walks = 0
    /\ hookStarted = FALSE
    /\ scheduled = 0
    /\ passNo = 0
    /\ workLog = {}
    /\ lastPass = [no |-> 0, work |-> {}, loadAll |-> FALSE, devFile |-> MissingFile,
                   registry |-> 1, dropped |-> FALSE]
    /\ contLog = << >>
    /\ lastResolved = << >>
    /\ ret = NoCall
    /\ addLog = << >>
    /\ drain = NoDrain

(* ------------------------------------------------------------------ *)
(* The process-wide current registry                                    *)
(* ------------------------------------------------------------------ *)

\* connectionsRegistry(): the object s_pCurrentConnectionsRegistry points to
connectionsRegistry(h, current) == h[current]

\* Faulty variant of updateConnectionsRegistry: the assignment is lost and
\* the old registry stays current.
updateConnectionsRegistry_Keep(current, pReg) == current

\* updateConnectionsRegistry(pRegistry): the new value of s_pCurrentConnectionsRegistry
updateConnectionsRegistry(current, pReg) == pReg

\* connectionsRegistryAsJson()
connectionsRegistryAsJson == RegistryToJson(connectionsRegistry(heap, sCurrent))

(* ------------------------------------------------------------------ *)
(* ppe::Indexer, the scan driver                                        *)
(* ------------------------------------------------------------------ *)

\* running()
running == walks > 0

\* start(): begins a walk
Start ==
    /\ walks' = walks + 1
    /\ passNo' = passNo + 1

(* ------------------------------------------------------------------ *)
(* ConnectionsIndexer                                                   *)
(* ------------------------------------------------------------------ *)

\* Faulty variant of onIndexingStarted: the pass builds into the current
\* registry instead of a new one.
OnIndexingStarted_InPlace ==
    /\ running /\ ~hookStarted
    /\ pRegistry' = sCurrent
    /\ heap' = Live(heap, {sCurrent})
    /\ hookStarted' = TRUE
    /\ workLog' = {}
    /\ UNCHANGED << sCurrent, continuations, walks, scheduled, passNo, lastPass,
                    contLog, lastResolved, ret, addLog, drain >>

\* Faulty variant of onIndexingStarted: the new registry starts as a copy of
\* the current one (an incremental re-index).
OnIndexingStarted_CopyCurrent ==
    /\ running /\ ~hookStarted
    /\ LET fresh == CHOOSE i \in ObjectIds : i \notin {sCurrent, pRegistry}
       IN  /\ pRegistry' = fresh
           /\ heap' = (fresh :> heap[sCurrent]) @@ Live(heap, {sCurrent})
    /\ hookStarted' = TRUE
    /\ workLog' = {}
    /\ UNCHANGED << sCurrent, continuations, walks, scheduled, passNo, lastPass,
                    contLog, lastResolved, ret, addLog, drain >>

\* onIndexingStarted(): pRegistry_ = boost::make_shared<ConnectionsRegistry>()
OnIndexingStarted ==
    /\ running /\ ~hookStarted
    /\ LET fresh == CHOOSE i \in ObjectIds : i \notin {sCurrent, pRegistry}
       IN  /\ pRegistry' = fresh
           /\ heap' = (fresh :> EmptyRegistry) @@ Live(heap, {sCurrent})
    /\ hookStarted' = TRUE
    /\ workLog' = {}
    /\ UNCHANGED << sCurrent, continuations, walks, scheduled, passNo, lastPass,
                    contLog, lastResolved, ret, addLog, drain >>

\* onWork(pkgName, connectionExtensionPath), for entry i of the library: the
\* walk calls it once per descriptor file it finds
OnWork(i) ==
    /\ running /\ hookStarted
    /\ i \notin workLog
    /\ heap' = [heap EXCEPT ![pRegistry] =
                   RegistryAddFile(@, Library[i].pkgName, Library[i].file)]
    /\ workLog' = workLog \cup {i}
    /\ UNCHANGED << sCurrent, pRegistry, continuations, walks, hookStarted, scheduled,
                    passNo, lastPass, contLog, lastResolved, ret, addLog, drain >>

\* Faulty variant of the loop over continuations_: a pass that found no
\* entry reports a failure.
ResolveContinuations_FailWhenEmpty(queue, registryJson, current) ==
    [i \in 1 .. Len(queue) |->
        [continuation |-> queue[i],
         error |-> IF registryJson = << >> THEN "Failure" ELSE "Success",
         result |-> registryJson, current |-> current]]

\* the loop over continuations_ of onIndexingCompleted(): each continuation
\* is called with Success() and a response whose result is registryJson;
\* `current` records s_pCurrentConnectionsRegistry at the time of the call
ResolveContinuations(queue, registryJson, current) ==
    [i \in 1 .. Len(queue) |->
        [continuation |-> queue[i], error |-> "Success",
         result |-> registryJson, current |-> current]]

\* onIndexingCompleted(); loadAll is isDevtoolsLoadAllActive(), devFile is
\* what extensionPath holds. lastPass keeps what the pass was given, the
\* address of the registry it built, and whether the registry it replaced
\* held a key the new one does not.
OnIndexingCompleted(loadAll, devFile) ==
    /\ running /\ hookStarted
    /\ LET built == IF loadAll /\ devFile.exists
                    THEN RegistryAddFile(heap[pRegistry], DevPackageName, devFile)
                    ELSE heap[pRegistry]
           heap1 == [heap EXCEPT ![pRegistry] = built]
           current1 == updateConnectionsRegistry(sCurrent, pRegistry)
           registryJson == RegistryToJson(connectionsRegistry(heap1, current1))
           calls == ResolveContinuations(continuations, registryJson, current1)
       IN  /\ sCurrent' = current1
           /\ heap' = Live(heap1, {current1, pRegistry})
           /\ lastResolved' = calls
           /\ contLog' = [c \in DOMAIN contLog |->
                            [contLog[c] EXCEPT !.invoked =
                                @ \o [k \in 1 .. Cardinality({i \in DOMAIN calls :
                                                         calls[i].continuation = c})
                                        |-> passNo]]]
           /\ lastPass' = [no |-> passNo, work |-> workLog, loadAll |-> loadAll,
                           devFile |-> devFile, registry |-> pRegistry,
                           dropped |-> \E k \in DOMAIN heap[sCurrent] :
                                          k \notin DOMAIN built]
    /\ walks' = walks - 1
    /\ hookStarted' = FALSE
    \* continuations_ is read by the loop and not written
    /\ UNCHANGED << continuations, pRegistry, scheduled, passNo, workLog, ret, addLog, drain >>

\* Faulty variant of addContinuation: the continuation is put at the front.
addContinuation_Front(queue, continuation) == <<continuation>> \o queue

\* addContinuation(continuation): continuations_.push_back(continuation)
addContinuation(queue, continuation) == Append(queue, continuation)

(* ------------------------------------------------------------------ *)
(* The entry points                                                     *)
(* ------------------------------------------------------------------ *)

\* what a call with a continuation adds to the history of continuations
LogQueued(log, continuation) ==
    IF continuation # NoContinuation
    THEN Append(log, [pass |-> IF running THEN passNo ELSE passNo + 1,
                      running |-> running, invoked |-> << >>])
    ELSE log

\* Faulty variant of indexLibraryPathsWithContinuation: start() is called
\* without asking running().
IndexLibraryPathsWithContinuation_AlwaysStart(continuation) ==
    /\ passNo < MaxPasses
    /\ continuations' = IF continuation # NoContinuation
                        THEN addContinuation(continuations, continuation)
                        ELSE continuations
    /\ contLog' = LogQueued(contLog, continuation)
    /\ Start
    /\ UNCHANGED << heap, sCurrent, pRegistry, hookStarted, workLog, lastPass,
                    lastResolved, ret, addLog, drain >>

\* Faulty variant of indexLibraryPathsWithContinuation: a call made while a
\* pass is running returns before it queues the continuation.
IndexLibraryPathsWithContinuation_DropWhenRunning(continuation) ==
    /\ running \/ passNo < MaxPasses
    /\ continuations' = IF continuation # NoContinuation /\ ~running
                        THEN addContinuation(continuations, continuation)
                        ELSE continuations
    /\ contLog' = LogQueued(contLog, continuation)
    /\ IF ~running
       THEN Start
       ELSE UNCHANGED << walks, passNo >>
    /\ UNCHANGED << heap, sCurrent, pRegistry, hookStarted, workLog, lastPass,
                    lastResolved, ret, addLog, drain >>

\* Faulty variant of indexLibraryPathsWithContinuation: the test of
\* running() is inverted, so a call made while idle starts nothing.
IndexLibraryPathsWithContinuation_StartWhenRunning(continuation) ==
    /\ passNo < MaxPasses
    /\ continuations' = IF continuation # NoContinuation
                        THEN addContinuation(continuations, continuation)
                        ELSE continuations
    /\ contLog' = LogQueued(contLog, continuation)
    /\ IF running
       THEN Start
       ELSE UNCHANGED << walks, passNo >>
    /\ UNCHANGED << heap, sCurrent, pRegistry, hookStarted, workLog, lastPass,
                    lastResolved, ret, addLog, drain >>

\* indexLibraryPathsWithContinuation(continuation), on the indexer's state
\* (the host's scheduler is left to the caller)
IndexLibraryPathsWithContinuation(continuation) ==
    /\ running \/ passNo < MaxPasses
    /\ continuations' = IF continuation # NoContinuation
                        THEN addContinuation(continuations, continuation)
                        ELSE continuations
    /\ contLog' = LogQueued(contLog, continuation)
    /\ IF ~running
       THEN Start
       ELSE UNCHANGED << walks, passNo >>
    /\ UNCHANGED << heap, sCurrent, pRegistry, hookStarted, workLog, lastPass,
                    lastResolved, ret, addLog, drain >>

\* indexLibraryPaths()
IndexLibraryPaths == IndexLibraryPathsWithContinuation(NoContinuation)

\* a caller with a continuation of its own (an RPC handler): every call
\* brings a continuation that was not queued before
RpcIndexWithContinuation ==
    /\ Len(contLog) < MaxConts
    /\ IndexLibraryPathsWithContinuation(Len(contLog) + 1)
    /\ UNCHANGED scheduled

\* onDeferredInit(bool)
OnDeferredInit ==
    /\ IndexLibraryPaths
    /\ UNCHANGED scheduled

\* the static `commands` of onConsoleInput, in the order they are pushed
commands ==
    << "install.packages", "remove.packages", "devtools::install_github",
       "install_github", "devtools::load_all", "load_all" >>

\* the loop of onConsoleInput over `cmds`: the number of scheduleDelayedWork
\* calls it makes (it returns at the first command that matches)
RECURSIVE ScheduleCalls(_, _)
ScheduleCalls(trimmedInput, cmds) ==
    IF cmds = << >> THEN 0
    ELSE IF StartsWith(trimmedInput, Head(cmds)) THEN 1
    ELSE ScheduleCalls(trimmedInput, Tail(cmds))

\* Faulty variant of onConsoleInput: the input is matched without trimming it.
OnConsoleInput_NoTrim(input, disablePackages) ==
    /\ LET n == IF disablePackages THEN 0 ELSE ScheduleCalls(input, commands)
       IN  /\ scheduled + n <= MaxScheduled
           /\ scheduled' = scheduled + n
    /\ UNCHANGED << heap, sCurrent, pRegistry, continuations, walks, hookStarted,
                    passNo, workLog, lastPass, contLog, lastResolved, ret, addLog, drain >>

\* onConsoleInput(input); disablePackages is module_context::disablePackages()
OnConsoleInput(input, disablePackages) ==
    /\ LET n == IF disablePackages THEN 0
                ELSE ScheduleCalls(TrimCopy(input), commands)
       IN  /\ scheduled + n <= MaxScheduled
           /\ scheduled' = scheduled + n
    /\ UNCHANGED << heap, sCurrent, pRegistry, continuations, walks, hookStarted,
                    passNo, workLog, lastPass, contLog, lastResolved, ret, addLog, drain >>

\* the host runs a job scheduled by onConsoleInput: indexLibraryPaths()
DelayedWork ==
    /\ scheduled > 0
    /\ scheduled' = scheduled - 1
    /\ IndexLibraryPaths

Next ==
    \/ RpcIndexWithContinuation
    \/ OnDeferredInit
    \/ \E input \in ConsoleInputs, disablePackages \in BOOLEAN :
          OnConsoleInput(input, disablePackages)
    \/ DelayedWork
    \/ OnIndexingStarted
    \/ \E i \in DOMAIN Library : OnWork(i)
    \/ \E loadAll \in BOOLEAN :
          \* extensionPath is looked at only when load-all is active
          \E devFile \in (IF loadAll THEN DevFiles ELSE {MissingFile}) :
             OnIndexingCompleted(loadAll, devFile)

Spec == Init /\ [][Next]_vars

\* The scan driver finishes every walk it starts: it calls onIndexingStarted()
\* and then, some time later, onIndexingCompleted().
FairSpec ==
    /\ Spec
    /\ WF_vars(OnIndexingStarted)
    /\ WF_vars(\E loadAll \in BOOLEAN, devFile \in DevFiles :
                  OnIndexingCompleted(loadAll, devFile))

(* ------------------------------------------------------------------ *)
(* Properties of the indexer                                            *)
(* ------------------------------------------------------------------ *)

\* the registry a pass builds when it starts from an empty registry: the
\* files of `work` in library order
RECURSIVE AddLibraryFiles(_, _, _)
AddLibraryFiles(reg, work, i) ==
    IF i > Len(Library) THEN reg
    ELSE AddLibraryFiles(IF i \in work
                         THEN RegistryAddFile(reg, Library[i].pkgName, Library[i].file)
                         ELSE reg,
                         work, i + 1)

\* ... and then the project's own descriptor file when load-all is active
PassRegistry(pass) ==
    LET fromLibrary == AddLibraryFiles(EmptyRegistry, pass.work, 1)
    IN  IF pass.loadAll /\ pass.devFile.exists
        THEN RegistryAddFile(fromLibrary, DevPackageName, pass.devFile)
        ELSE fromLibrary

\* the passes that have called continuation c
InvokedIn(c) == contLog[c].invoked

\* C1: every continuation that was queued is invoked exactly once in total:
\* one that a pass resolved is not invoked again when a later pass completes
\* (the queue is drained once per pass and left empty).
C1_InvokedOnceInTotal ==
    \A c \in DOMAIN contLog : Len(InvokedIn(c)) <= 1

\* C2: at most one pass is running at any time, and no step taken while a
\* pass is running starts another one (a request then only queues its
\* continuation).
C2_AtMostOnePassRunning ==
    /\ [](walks <= 1)
    /\ [][running => (passNo' = passNo /\ walks' <= walks)]_vars

\* a request with a continuation arrived while the pass in flight was running
C2_Witness ==
    /\ walks = 1
    /\ \E c \in DOMAIN contLog : contLog[c].running /\ contLog[c].pass = passNo

\* C3: from onIndexingStarted() to the swap the registry being built is
\* another object than the current one, and no step of the pass (an onWork
\* call, a request) changes what connectionsRegistryAsJson() returns.
C3_NoPartialRegistryVisible ==
    /\ [](hookStarted => pRegistry # sCurrent)
    /\ [][(hookStarted /\ hookStarted')
            => connectionsRegistryAsJson' = connectionsRegistryAsJson]_vars

\* a second pass has added entries while the first pass's registry is served
C3_Witness ==
    /\ hookStarted
    /\ lastPass.no >= 1
    /\ heap[pRegistry] # EmptyRegistry
    /\ heap[sCurrent] # EmptyRegistry
    /\ heap[pRegistry] # heap[sCurrent]

\* C4: every continuation is called after the swap (the current registry is
\* then the one the pass built) and gets the serialized form of that
\* registry, the project's own entry included when load-all is active.
C4_ResolvedAfterSwap ==
    \A i \in DOMAIN lastResolved :
        /\ lastResolved[i].current = lastPass.registry
        /\ lastResolved[i].result = RegistryToJson(PassRegistry(lastPass))

\* the second pass resolved a continuation with a registry that holds the
\* project's own entry
C4_Witness ==
    /\ lastPass.no = 2
    /\ lastResolved # << >>
    /\ lastPass.loadAll
    /\ constructKey(DevPackageName, "dev") \in DOMAIN lastResolved[1].result
    /\ lastPass.work # {}

\* C5: after onIndexingCompleted() the current registry holds exactly what
\* that pass added, starting from an empty registry: the entries of its
\* onWork() calls and, under load-all with the file present, those of the
\* project's descriptor file; nothing of an earlier pass survives.
C5_CurrentIsLastPass ==
    connectionsRegistry(heap, sCurrent) = PassRegistry(lastPass)

\* a pass replaced a registry that held an entry the pass did not find again
C5_Witness ==
    /\ lastPass.no >= 2
    /\ lastPass.dropped
    /\ connectionsRegistry(heap, sCurrent) # EmptyRegistry
    /\ lastPass.loadAll /\ lastPass.devFile.exists

\* C6: the continuations one pass resolves are called in the order they
\* were queued (continuations are numbered in that order).
C6_ResolvedInFifoOrder ==
    \A i, j \in DOMAIN lastResolved :
        i < j => lastResolved[i].continuation < lastResolved[j].continuation

\* a pass resolved two continuations
C6_Witness == Len(lastResolved) >= 2

\* C7: a continuation queued while a pass was running is called when that
\* pass completes and by no later pass.
C7_ResolvedByPassInFlightOnly ==
    \A c \in DOMAIN contLog :
        contLog[c].running =>
            /\ \A k \in DOMAIN InvokedIn(c) : InvokedIn(c)[k] = contLog[c].pass
            /\ lastPass.no >= contLog[c].pass => InvokedIn(c) # << >>

RegPackages == { "odbc", "DBI" }
RegNames == { "pg", "" }

\* connectionsRegistry().add(package, spec)
CallAdd(package, spec) ==
    /\ heap' = [heap EXCEPT ![sCurrent] =
                   RegistryAdd(connectionsRegistry(heap, sCurrent), package, spec)]
    /\ ret' = [op |-> "add", key |-> constructKey(package, spec.name_),
               found |-> TRUE, entry |-> spec, file |-> MissingFile]
    /\ UNCHANGED << sCurrent, pRegistry, continuations, walks, hookStarted, scheduled,
                    passNo, workLog, lastPass, contLog, lastResolved >>

\* connectionsRegistry().contains(package, name)
CallContains(package, name) ==
    /\ ret' = [op |-> "contains", key |-> constructKey(package, name),
               found |-> RegistryContains(connectionsRegistry(heap, sCurrent),
                                          package, name),
               entry |-> DefaultEntry, file |-> MissingFile]
    /\ UNCHANGED << heap, sCurrent, pRegistry, continuations, walks, hookStarted,
                    scheduled, passNo, workLog, lastPass, contLog, lastResolved >>

\* connectionsRegistry().get(package, name)
CallGet(package, name) ==
    /\ LET got == RegistryGet(connectionsRegistry(heap, sCurrent), package, name)
       IN  /\ heap' = [heap EXCEPT ![sCurrent] = got.registry]
           /\ ret' = [op |-> "get", key |-> constructKey(package, name),
                      found |-> RegistryContains(connectionsRegistry(heap, sCurrent),
                                                 package, name),
                      entry |-> got.entry, file |-> MissingFile]
    /\ UNCHANGED << sCurrent, pRegistry, continuations, walks, hookStarted, scheduled,
                    passNo, workLog, lastPass, contLog, lastResolved >>

\* connectionsRegistry().toJson()
CallToJson ==
    /\ ret' = [op |-> "toJson", key |-> "", found |-> FALSE, entry |-> DefaultEntry,
               file |-> MissingFile,
               json |-> RegistryToJson(connectionsRegistry(heap, sCurrent))]
    /\ UNCHANGED << heap, sCurrent, pRegistry, continuations, walks, hookStarted,
                    scheduled, passNo, workLog, lastPass, contLog, lastResolved >>

NextRegistry ==
    \/ \E package \in RegPackages, name \in RegNames, owner \in RegPackages :
          CallAdd(package, ConnectionsIndexEntry(name, owner)) /\ UNCHANGED << addLog, drain >>
    \/ CallToJson /\ UNCHANGED << addLog, drain >>
    \/ \E package \in RegPackages, name \in RegNames :
          CallContains(package, name) /\ UNCHANGED << addLog, drain >>
    \/ \E package \in RegPackages, name \in RegNames :
          CallGet(package, name) /\ UNCHANGED << addLog, drain >>

SpecRegistry == Init /\ [][NextRegistry]_vars

(* ------------------------------------------------------------------ *)
(* Properties of the registry                                           *)
(* ------------------------------------------------------------------ *)

\* C10: get(package, name) and contains(package, name) leave the registry
\* as it was, also when the key is not present: its keys, its size() and
\* its toJson() do not change.
C10_LookupsLeaveRegistryUnchanged ==
    [][ret'.op \in {"get", "contains"} =>
          /\ DOMAIN connectionsRegistry(heap, sCurrent)'
                = DOMAIN connectionsRegistry(heap, sCurrent)
          /\ RegistrySize(connectionsRegistry(heap, sCurrent))'
                = RegistrySize(connectionsRegistry(heap, sCurrent))
          /\ connectionsRegistryAsJson' = connectionsRegistryAsJson]_vars

\* C12: every pass that was started reaches onIndexingCompleted(), whatever
\* its files did; the registry it built, empty or not, is then the published
\* one, and every continuation queued by then was called with a success
\* result that carries that registry.
C12_OnlySuccessSurfaced ==
    /\ [](lastPass.no > 0 =>
            /\ sCurrent = lastPass.registry
            /\ connectionsRegistry(heap, sCurrent) = PassRegistry(lastPass)
            /\ { lastResolved[i].continuation : i \in DOMAIN lastResolved }
                  = { c \in DOMAIN contLog : contLog[c].pass <= lastPass.no }
            /\ \A i \in DOMAIN lastResolved :
                  /\ lastResolved[i].error = "Success"
                  /\ lastResolved[i].result = RegistryToJson(PassRegistry(lastPass)))
    /\ \A n \in 1 .. MaxPasses : (passNo = n) ~> (lastPass.no = n)

\* a pass whose only file could not be read found nothing, published the
\* empty registry and called its continuation with success
C12_Witness ==
    /\ lastPass.no > 0
    /\ lastPass.work = { i \in DOMAIN Library : Library[i].file = UnreadableFile }
    /\ lastPass.work # {}
    /\ ~lastPass.loadAll
    /\ connectionsRegistry(heap, sCurrent) = EmptyRegistry
    /\ lastResolved # << >>
    /\ lastResolved[1].error = "Success"
    /\ lastResolved[1].result = << >>

\* the number of re-index jobs a console input is to schedule: one when
\* packages are enabled and the trimmed input starts with some recognized
\* command, whatever the order of the commands, and none otherwise
ExpectedSchedules(input, disablePackages) ==
    IF /\ ~disablePackages
       /\ \E k \in DOMAIN commands : StartsWith(TrimCopy(input), commands[k])
    THEN 1 ELSE 0

\* onConsoleInput(input) ran and left exactly the expected number of delayed
\* jobs, without starting a pass or queueing a continuation
ConsoleInputAsExpected(input, disablePackages) ==
    /\ OnConsoleInput(input, disablePackages)
    /\ scheduled' = scheduled + ExpectedSchedules(input, disablePackages)
    /\ passNo' = passNo
    /\ walks' = walks
    /\ continuations' = continuations

\* C15: onConsoleInput schedules exactly one delayed re-index when packages
\* are enabled and the trimmed input starts with a recognized command, and
\* none otherwise; it never starts a pass itself.
C15_ConsoleInputSchedulesOnce ==
    /\ [](\A input \in ConsoleInputs, disablePackages \in BOOLEAN :
            scheduled + ExpectedSchedules(input, disablePackages) <= MaxScheduled
               => ENABLED ConsoleInputAsExpected(input, disablePackages))
    /\ [][\A input \in ConsoleInputs, disablePackages \in BOOLEAN :
            OnConsoleInput(input, disablePackages)
               => ConsoleInputAsExpected(input, disablePackages)]_vars

\* a job is scheduled and no pass has been started
C15_Witness ==
    /\ scheduled = 1
    /\ passNo = 0
    /\ walks = 0

(* ------------------------------------------------------------------ *)
(* add(pkgName, connectionExtensionPath) on its own                     *)
(* ------------------------------------------------------------------ *)

\* the example of the specification: two blocks, one blank line between them
FileExample == DescriptorFile("Name: pg\n\nName: sqlite\n")
\* two blocks with three blank lines between them
FileThreeBlankLines == DescriptorFile("Name: pg\n\n\n\nName: sqlite")
\* one block with a separator before it and one after it
FileLeadingSeparator == DescriptorFile("\n\nName: pg\n\n")
\* three blocks, the second of which does not parse
FileParseError == DescriptorFile("Name: pg\n\nbroken line\n\nName: sqlite")
\* two blocks without a Name field
FileNoName == DescriptorFile("Type: x\n\nType: y")

\* the descriptor files add(pkgName, path) is called with
TestFiles ==
    { FileExample, FileThreeBlankLines, FileLeadingSeparator, FileParseError,
      FileNoName, UnreadableFile }

\* connectionsRegistry().add(pkgName, connectionExtensionPath)
CallAddFile(pkgName, file) ==
    /\ heap' = [heap EXCEPT ![sCurrent] =
                   RegistryAddFile(connectionsRegistry(heap, sCurrent), pkgName, file)]
    /\ ret' = [op |-> "addFile", key |-> pkgName,
               found |-> ~readStringFromFile(file).error,
               entry |-> DefaultEntry, file |-> file]
    /\ UNCHANGED << sCurrent, pRegistry, continuations, walks, hookStarted, scheduled,
                    passNo, workLog, lastPass, contLog, lastResolved >>

NextFiles ==
    \E pkgName \in RegPackages, file \in TestFiles :
       CallAddFile(pkgName, file) /\ UNCHANGED << addLog, drain >>

SpecFiles == Init /\ [][NextFiles]_vars

(* ------------------------------------------------------------------ *)
(* Properties of add(pkgName, connectionExtensionPath)                  *)
(* ------------------------------------------------------------------ *)

\* the text add(pkgName, file) works on ("" when the file cannot be read)
FileText(file) == readStringFromFile(file).contents

\* the tokens of the text that are not empty
IsNonEmptyBlock(block) == block # ""
NonEmptyBlocks(text) == SelectSeq(SplitBlocks(text), IsNonEmptyBlock)

\* the keys of the blocks of the file that parse without an error
ParsedBlockKeys(pkgName, file) ==
    IF readStringFromFile(file).error THEN {}
    ELSE LET blocks == SplitBlocks(FileText(file))
         IN  { constructKey(pkgName, FieldValue(parseDcfFile(blocks[i]).fields, "Name")) :
                  i \in { j \in DOMAIN blocks : ~parseDcfFile(blocks[j]).error } }

\* C11: a file that cannot be read adds nothing, a block that does not parse
\* adds nothing, and every block that parses is added: the keys after
\* add(pkgName, file) are the keys before it and those of the parsed blocks.
C11_FailingBlocksAddNothing ==
    [][\A pkgName \in RegPackages, file \in TestFiles :
         CallAddFile(pkgName, file) =>
            DOMAIN connectionsRegistry(heap, sCurrent)'
               = DOMAIN connectionsRegistry(heap, sCurrent)
                   \cup ParsedBlockKeys(pkgName, file)]_vars

\* every block parses, has a Name, and no two blocks have the same Name
DistinctlyNamed(blocks) ==
    /\ \A i \in DOMAIN blocks :
          /\ ~parseDcfFile(blocks[i]).error
          /\ "Name" \in DOMAIN parseDcfFile(blocks[i]).fields
    /\ \A i, j \in DOMAIN blocks :
          i # j => parseDcfFile(blocks[i]).fields["Name"]
                     # parseDcfFile(blocks[j]).fields["Name"]

\* C16: add(pkgName, file) on an empty registry, for a file of n non-empty
\* blocks with distinct names (separated by runs of two or more newlines,
\* with or without separators before the first and after the last block),
\* leaves exactly n entries.
C16_OneEntryPerBlock ==
    [][\A pkgName \in RegPackages, file \in TestFiles :
         ( /\ CallAddFile(pkgName, file)
           /\ connectionsRegistry(heap, sCurrent) = EmptyRegistry
           /\ ~readStringFromFile(file).error
           /\ DistinctlyNamed(NonEmptyBlocks(FileText(file))) )
         => RegistrySize(connectionsRegistry(heap, sCurrent))'
               = Len(NonEmptyBlocks(FileText(file)))]_vars

\* the blocks of the text whose parsed fields have no Name
NamelessBlocks(text) ==
    { i \in DOMAIN SplitBlocks(text) :
         "Name" \notin DOMAIN parseConnectionsDcf(SplitBlocks(text)[i]) }

\* C17: a block whose fields lack Name is stored under "<package>::" with an
\* empty name and the package as owner; a file whose blocks all lack Name
\* leaves one entry in an empty registry.
C17_NamelessBlockStored ==
    [][\A pkgName \in RegPackages, file \in TestFiles :
         (CallAddFile(pkgName, file) /\ ~readStringFromFile(file).error) =>
            LET after == connectionsRegistry(heap, sCurrent)'
                key == constructKey(pkgName, "")
            IN  /\ NamelessBlocks(FileText(file)) # {} =>
                      /\ key \in DOMAIN after
                      /\ after[key] = ConnectionsIndexEntry("", pkgName)
                /\ ( /\ connectionsRegistry(heap, sCurrent) = EmptyRegistry
                     /\ NamelessBlocks(FileText(file))
                           = DOMAIN SplitBlocks(FileText(file)) )
                   => RegistrySize(after) = 1]_vars

\* the file of two blocks without Name was added to an empty registry
C17_Witness ==
    /\ ret.op = "addFile"
    /\ ret.file = FileNoName
    /\ connectionsRegistry(heap, sCurrent)
          = (constructKey(ret.key, "") :> ConnectionsIndexEntry("", ret.key))

(* ------------------------------------------------------------------ *)
(* Sequences of add(package, spec) calls                                *)
(* ------------------------------------------------------------------ *)

\* add(package, spec), recorded in the call sequence
LoggedAdd(package, spec) ==
    /\ Len(addLog) < MaxAdds
    /\ CallAdd(package, spec)
    /\ addLog' = Append(addLog, [package |-> package, spec |-> spec])
    /\ UNCHANGED drain

NextAdds ==
    \E package \in RegPackages, name \in RegNames, owner \in RegPackages :
       LoggedAdd(package, ConnectionsIndexEntry(name, owner))

SpecAdds == Init /\ [][NextAdds]_vars

\* package and name strings that contain the separator of the key
KeyPackages == { "a", "a::b", "ab" }
KeyNames == { "c", "b::c", "bc" }

NextKeys ==
    \E package \in KeyPackages, name \in KeyNames :
       LoggedAdd(package, ConnectionsIndexEntry(name, package))

SpecKeys == Init /\ [][NextKeys]_vars

\* the key the i-th recorded add was stored under
AddKey(i) == constructKey(addLog[i].package, addLog[i].spec.name_)

\* the keys used by the recorded adds
AddKeys == { AddKey(i) : i \in DOMAIN addLog }

\* the last recorded add that used the key
LastAdd(key) ==
    addLog[CHOOSE i \in DOMAIN addLog :
              /\ AddKey(i) = key
              /\ \A j \in DOMAIN addLog : AddKey(j) = key => j <= i]

\* C13: after any sequence of add(package, entry) calls, size() is the number
\* of distinct keys used, and each key holds the entry of the last add for it.
C13_SizeIsDistinctKeys ==
    LET reg == connectionsRegistry(heap, sCurrent)
    IN  /\ RegistrySize(reg) = Cardinality(AddKeys)
        /\ \A key \in AddKeys :
              /\ key \in DOMAIN reg
              /\ reg[key] = LastAdd(key).spec

\* two adds under one key with different entries: the second is stored
C13_Witness ==
    /\ Len(addLog) = 2
    /\ AddKey(1) = AddKey(2)
    /\ addLog[1].spec # addLog[2].spec
    /\ connectionsRegistry(heap, sCurrent) = (AddKey(2) :> addLog[2].spec)

\* C14: contains(package, name) is true right after add(package, entry) with
\* that name, and no add, get, contains or toJson call makes it false again.
C14_ContainsStaysTrue ==
    [][\A package \in RegPackages, name \in RegNames :
         /\ RegistryContains(connectionsRegistry(heap, sCurrent), package, name)
               => RegistryContains(connectionsRegistry(heap, sCurrent)', package, name)
         /\ \A owner \in RegPackages :
               CallAdd(package, ConnectionsIndexEntry(name, owner))
                  => RegistryContains(connectionsRegistry(heap, sCurrent)',
                                      package, name)]_vars

\* contains() answered true on a registry that holds every key
C14_Witness ==
    /\ ret.op = "contains"
    /\ ret.found
    /\ \A package \in RegPackages, name \in RegNames :
          RegistryContains(connectionsRegistry(heap, sCurrent), package, name)

\* C18: every key of the registry, and of toJson(), is "<package>::<name>" of
\* the package and name attributes of the entry stored under it.
C18_KeyMatchesEntry ==
    LET reg == connectionsRegistry(heap, sCurrent)
        json == RegistryToJson(reg)
    IN  /\ \A key \in DOMAIN reg :
              key = constructKey(reg[key].package_, reg[key].name_)
        /\ \A key \in DOMAIN json :
              key = constructKey(json[key].package, json[key].name)

\* the string holds a colon
HasColon(str) == \E i \in 1 .. Len(str) : CharAt(str, i) = ":"

\* the recorded adds i and j differ in package or name
DifferentPairs(i, j) ==
    << addLog[i].package, addLog[i].spec.name_ >>
       # << addLog[j].package, addLog[j].spec.name_ >>

\* C20 (as stated): two recorded adds with different (package, name) pairs are
\* stored under different keys, whatever the strings contain.
C20_KeyInjective ==
    \A i, j \in DOMAIN addLog : DifferentPairs(i, j) => AddKey(i) # AddKey(j)

\* C20 (amended): two recorded adds with different (package, name) pairs whose
\* package strings hold no colon are stored under different keys, whatever
\* the names contain.
C20_KeyInjectiveColonFreePackages ==
    \A i, j \in DOMAIN addLog :
       ( /\ DifferentPairs(i, j)
         /\ ~HasColon(addLog[i].package)
         /\ ~HasColon(addLog[j].package) )
       => AddKey(i) # AddKey(j)

\* entries of two colon-free packages, one with "::" in its name, are both stored
C20_Witness ==
    /\ Len(addLog) = 2
    /\ addLog[1].package = "a" /\ addLog[1].spec.name_ = "b::c"
    /\ addLog[2].package = "ab" /\ addLog[2].spec.name_ = "c"
    /\ RegistrySize(connectionsRegistry(heap, sCurrent)) = 2

(* ------------------------------------------------------------------ *)
(* onIndexingCompleted() followed call by call                          *)
(* ------------------------------------------------------------------ *)

\* onIndexingCompleted() up to its loop: the project's own file is added when
\* load-all is active, the registry is published, and BOOST_FOREACH takes
\* the begin and end of continuations_ once
BeginCompleted(loadAll, devFile) ==
    /\ running /\ hookStarted /\ ~drain.active
    /\ LET built == IF loadAll /\ devFile.exists
                    THEN RegistryAddFile(heap[pRegistry], DevPackageName, devFile)
                    ELSE heap[pRegistry]
           heap1 == [heap EXCEPT ![pRegistry] = built]
           current1 == updateConnectionsRegistry(sCurrent, pRegistry)
       IN  /\ sCurrent' = current1
           /\ heap' = Live(heap1, {current1, pRegistry})
           /\ drain' = [active |-> TRUE, pos |-> 1, last |-> Len(continuations),
                        dangling |-> FALSE, crashed |-> FALSE,
                        pass |-> [no |-> passNo, work |-> workLog,
                                  loadAll |-> loadAll, devFile |-> devFile,
                                  registry |-> pRegistry,
                                  dropped |-> \E k \in DOMAIN heap[sCurrent] :
                                                 k \notin DOMAIN built]]
    /\ lastResolved' = << >>
    /\ UNCHANGED << continuations, pRegistry, walks, hookStarted, scheduled, passNo,
                    workLog, lastPass, contLog, ret, addLog >>

\* one turn of the loop: the continuation at the loop's position is called.
\* With `reenter` the callback calls indexLibraryPathsWithContinuation() with
\* a continuation of its own: running() is still true, so the call only
\* appends to continuations_, the vector the loop is iterating. The push_back
\* may reallocate the vector, which leaves the loop's iterators dangling.
DrainCall(reenter) ==
    /\ drain.active /\ ~drain.crashed
    /\ drain.pos <= drain.last
    /\ LET c == continuations[drain.pos]
           call == ResolveContinuations(<< c >>,
                                        RegistryToJson(connectionsRegistry(heap, sCurrent)),
                                        sCurrent)[1]
           called == [contLog EXCEPT ![c].invoked = Append(@, passNo)]
       IN  /\ lastResolved' = Append(lastResolved, call)
           /\ IF reenter
              THEN /\ Len(contLog) < MaxConts + 1
                   /\ continuations' = addContinuation(continuations, Len(contLog) + 1)
                   /\ contLog' = LogQueued(called, Len(contLog) + 1)
                   /\ \E realloc \in BOOLEAN :
                         drain' = [drain EXCEPT !.pos = @ + 1,
                                                !.dangling = @ \/ realloc]
              ELSE /\ continuations' = continuations
                   /\ contLog' = called
                   /\ drain' = [drain EXCEPT !.pos = @ + 1]
    /\ UNCHANGED << heap, sCurrent, pRegistry, walks, hookStarted, scheduled, passNo,
                    workLog, lastPass, ret, addLog >>

\* the loop reads its next element through a dangling iterator: the freed
\* storage may still hold the old elements (the loop goes on, DrainCall) or
\* not (the session dies here)
DrainCrash ==
    /\ drain.active /\ ~drain.crashed
    /\ drain.dangling
    /\ drain.pos <= drain.last
    /\ drain' = [drain EXCEPT !.crashed = TRUE]
    /\ UNCHANGED << heap, sCurrent, pRegistry, continuations, walks, hookStarted,
                    scheduled, passNo, workLog, lastPass, contLog, lastResolved,
                    ret, addLog >>

\* the loop has reached the end it took at its start; onIndexingCompleted()
\* returns and the pass is over
EndCompleted ==
    /\ drain.active /\ ~drain.crashed
    /\ drain.pos > drain.last
    /\ walks' = walks - 1
    /\ hookStarted' = FALSE
    /\ lastPass' = drain.pass
    /\ drain' = NoDrain
    /\ UNCHANGED << heap, sCurrent, pRegistry, continuations, scheduled, passNo,
                    workLog, contLog, lastResolved, ret, addLog >>

NextDrain ==
    \/ ~drain.active /\ RpcIndexWithContinuation
    \/ ~drain.active /\ OnIndexingStarted
    \/ \E i \in DOMAIN Library : ~drain.active /\ OnWork(i)
    \/ \E loadAll \in BOOLEAN :
          \E devFile \in (IF loadAll THEN DevFiles ELSE {MissingFile}) :
             BeginCompleted(loadAll, devFile)
    \/ \E reenter \in BOOLEAN : DrainCall(reenter)
    \/ DrainCrash
    \/ EndCompleted

SpecDrain == Init /\ [][NextDrain]_vars

\* C19: no continuation is appended to the queue while the loop of
\* onIndexingCompleted() is draining it, and a continuation is neither left
\* uncalled by the pass it was queued for nor called twice.
C19_AppendExcludedFromDrain ==
    /\ [][drain.active => continuations' = continuations]_vars
    /\ [](\A c \in DOMAIN contLog :
            /\ Len(InvokedIn(c)) <= 1
            /\ lastPass.no >= contLog[c].pass => InvokedIn(c) # << >>)

====
